---------------------------- MODULE Spec2Model ----------------------------
(***************************************************************************)
(* A model of the hyperlane-tron chain connector                           *)
(* (rust/main/chains/hyperlane-tron/src).                                  *)
(*                                                                         *)
(* The connector keeps no state between calls: every facade method is a    *)
(* sequence of local steps and network round trips.  The model therefore   *)
(* follows ONE call at a time: Init is the connector at rest (pc = "idle"),*)
(* a Start action picks a method and its inputs, one action per suspension *)
(* point performs the step that follows (the node's answer is an input of  *)
(* the action), and Return brings the connector back to rest.              *)
(*                                                                         *)
(* Numbers wider than TLC's integers (u32, u64, U256) are little-endian    *)
(* sequences of base-256 digits of the type's width, so that saturation,   *)
(* narrowing and wrapping are computed at their real widths.               *)
(***************************************************************************)
EXTENDS Integers, Sequences, FiniteSets, Bags, TLC

(***************************************************************************)
(* Bounds of the model.                                                    *)
(***************************************************************************)
\* FixedLag(n) is drawn from 1..MaxLag; the heights are laid around it.
MaxLag == 5
\* A raw log answer (a range query, a receipt) holds at most MaxLogs logs.
MaxLogs == 3
\* Dispatch nonces are drawn from 0..MaxNonce.
MaxNonce == 2
\* Failed attempts of the by-transaction-hash retry loop that are followed.
MaxAttempts == 2

(***************************************************************************)
(* Widths, in bytes.                                                       *)
(***************************************************************************)
H256Len == 32
NativeLen == 21
PadLen == 11
H160Len == 20
TronPrefix == 65
U32Len == 4
U64Len == 8
U256Len == 32

(***************************************************************************)
(* Fixed-width naturals: sequences of base-256 digits, least significant   *)
(* digit first.                                                            *)
(***************************************************************************)
Zeros(n) == [i \in 1 .. n |-> 0]

\* The digits of a small natural n (n < 2^31), on len digits.
ToDigits(n, len) ==
    [i \in 1 .. len |->
        IF i = 1 THEN n % 256
        ELSE IF i = 2 THEN (n \div 256) % 256
        ELSE IF i = 3 THEN (n \div 65536) % 256
        ELSE IF i = 4 THEN (n \div 16777216) % 256
        ELSE 0]

\* Zero-extension (u32 as u64) and the digits above a width.
Extend(a, len) == [i \in 1 .. len |-> IF i <= Len(a) THEN a[i] ELSE 0]
Low(a, len) == [i \in 1 .. len |-> a[i]]
FitsIn(a, len) == \A i \in 1 .. Len(a) : i > len => a[i] = 0

IsZero(a) == \A i \in 1 .. Len(a) : a[i] = 0

\* a < b, for two numbers of the same width.
Less(a, b) ==
    \E i \in 1 .. Len(a) :
        /\ a[i] < b[i]
        /\ \A j \in (i + 1) .. Len(a) : a[j] = b[j]

\* a + b on Len(a) digits, the carry out of the top digit dropped.
Add(a, b) ==
    LET n == Len(a)
        c[i \in 0 .. n] ==
            IF i = 0 THEN 0 ELSE (a[i] + b[i] + c[i - 1]) \div 256
    IN  [i \in 1 .. n |-> (a[i] + b[i] + c[i - 1]) % 256]

\* a - b on Len(a) digits, for a >= b.
Sub(a, b) ==
    LET n == Len(a)
        bw[i \in 0 .. n] ==
            IF i = 0 THEN 0
            ELSE IF a[i] - b[i] - bw[i - 1] < 0 THEN 1 ELSE 0
    IN  [i \in 1 .. n |-> (a[i] - b[i] - bw[i - 1] + 256) % 256]

\* u64::saturating_sub
saturating_sub(a, b) == IF Less(a, b) THEN Zeros(Len(a)) ELSE Sub(a, b)

\* The full product of two numbers of n digits, on 2n digits.
Mul(a, b) ==
    LET n == Len(a)
        col(k) ==
            LET Terms == {i \in 1 .. n : k + 1 - i \in 1 .. n}
                s[T \in SUBSET Terms] ==
                    IF T = {} THEN 0
                    ELSE LET i == CHOOSE x \in T : TRUE
                         IN  a[i] * b[k + 1 - i] + s[T \ {i}]
            IN  s[Terms]
        acc[k \in 0 .. 2 * n] ==
            IF k = 0 THEN 0 ELSE (col(k) + acc[k - 1]) \div 256
    IN  [k \in 1 .. 2 * n |-> (col(k) + acc[k - 1]) % 256]

Pow32 == [i \in 1 .. U64Len |-> IF i = U32Len + 1 THEN 1 ELSE 0]

(***************************************************************************)
(* AddressCodec (address.rs).  An H256 is a sequence of 32 bytes, a native *)
(* Tron address one of 21 bytes, both in memory order (index 1 is byte 0). *)
(***************************************************************************)
\* heliosphere's Address::new, called at address.rs:30: the 21 bytes are an
\* address when they start with the Tron prefix byte 0x41.
AddressNew(bytes) == bytes[1] = TronPrefix

\* impl From<H160> for TronAddress: the prefix byte, then the 20 bytes.
FromH160(h) == <<TronPrefix>> \o h

\* impl From<TronAddress> for H160: the 20 bytes after the prefix.
IntoH160(a) == SubSeq(a, 2, NativeLen)

\* A mutant of the encoding: the native bytes in the high-order positions.
IntoH256HighOrder(a) == a \o Zeros(PadLen)

\* impl From<TronAddress> for H256: bytes[11..] = the address, the rest zero.
IntoH256(a) == Zeros(PadLen) \o a

\* impl TryFrom<H256> for TronAddress: bytes = value[11..]; Address::new(bytes)?
\* The outcome is [ok, addr]: Ok(addr), or the InvalidAddress error.
TryFromH256(value) ==
    LET bytes == SubSeq(value, PadLen + 1, H256Len)
    IN  IF AddressNew(bytes)
        THEN [ok |-> TRUE, addr |-> bytes]
        ELSE [ok |-> FALSE, addr |-> <<>>]

\* The inputs: 20-byte bodies, native byte strings, paddings, identifiers.
Bodies ==
    {[i \in 1 .. H160Len |-> 0], [i \in 1 .. H160Len |-> 171],
     [i \in 1 .. H160Len |-> i]}
NativeBytes == {<<p>> \o b : p \in {TronPrefix, 0, 160}, b \in Bodies}
Paddings ==
    {Zeros(PadLen)} \cup
    {[Zeros(PadLen) EXCEPT ![i] = v] : i \in 1 .. PadLen, v \in {1, 255}}
H256Inputs == {p \o n : p \in Paddings, n \in NativeBytes}
\* The values of type TronAddress: those Address::new accepts.
TronAddresses == {n \in NativeBytes : AddressNew(n)}


(***************************************************************************)
(* The state of one call.                                                  *)
(***************************************************************************)
VARIABLES
    pc,            \* where the call in progress stands ("idle": no call)
    op,            \* the method in progress
    ret,           \* its result: [status, err]
    signer,        \* whether the facade was built with a signer
    reorg_period,  \* the reorg policy in force: [kind, lag]
    value,         \* the H256 the call converts (<<>>: none)
    native,        \* the TronAddress the call encodes (<<>>: none)
    decoded,       \* Option: the TronAddress decoded from `value`
    number,        \* Option: the finalized height resolved (u32)
    energy_limit,  \* Option: the energy ceiling of the submission (u64)
    fee_limit,     \* Option: the fee budget computed from it (u64)
    outcome,       \* Option: the TxOutcome returned
    raw,           \* the logs the node returned (range query or receipt)
    events,        \* the records returned to the caller
    attempts,      \* failed attempts of the retry loop so far
    lastErr,       \* the error of the last failed attempt ("": none)
    sequence,      \* Option: the counter read by latest_sequence_count_and_tip
    address_ret,   \* the H256 a facade's address() returned
    trace          \* the steps performed, in order: network calls and signing

vars ==
    <<pc, op, ret, signer, reorg_period, value, native, decoded, number,
      energy_limit, fee_limit, outcome, raw, events, attempts, lastErr,
      sequence, address_ret, trace>>

\* Rust's Option: None is {}, Some(x) is {x}.
None == {}
Some(x) == {x}

Pending == [status |-> "Pending", err |-> ""]
Ok == [status |-> "Ok", err |-> ""]
Err(kind) == [status |-> "Err", err |-> kind]
\* A panic unwinds out of the call: the caller gets no Result at all.
Panic(what) == [status |-> "Panic", err |-> what]

\* One step of a call: the node endpoint queried (or the local step), whether
\* it succeeded, the block a contract call was pinned to (Option), the fee
\* budget a build was given (Option), the address argument of a contract
\* call (Option) and the answer.
Entry(step, ok, block, resp) ==
    [step |-> step, ok |-> ok, block |-> block, fee |-> {}, arg |-> {},
     resp |-> resp]

NoPolicy == [kind |-> "None", lag |-> Zeros(U32Len)]
\* ReorgPeriod: None, Blocks(NonZeroU32) or Tag.
Lags == {ToDigits(n, U32Len) : n \in 1 .. MaxLag}
ReorgPeriods ==
    {NoPolicy, [kind |-> "Tag", lag |-> Zeros(U32Len)]} \cup
    {[kind |-> "Blocks", lag |-> l] : l \in Lags}
\* ReorgPeriod::is_none
is_none(policy) == policy.kind = "None"

\* The heights a node may answer (u64): around zero, the spec's 100, and
\* around the top of the 32-bit range.
Heights ==
    {ToDigits(n, U64Len) : n \in (0 .. MaxLag + 1) \cup {100}} \cup
    {Sub(Pow32, ToDigits(k, U64Len)) : k \in 1 .. 2} \cup
    {Add(Pow32, ToDigits(k, U64Len)) : k \in 0 .. MaxLag + 1}

Init ==
    /\ pc = "idle"
    /\ op = "none"
    /\ ret = Pending
    /\ signer = FALSE
    /\ reorg_period = NoPolicy
    /\ value = <<>>
    /\ native = <<>>
    /\ decoded = None
    /\ number = None
    /\ energy_limit = None
    /\ fee_limit = None
    /\ outcome = None
    /\ raw = <<>>
    /\ events = <<>>
    /\ attempts = 0
    /\ lastErr = ""
    /\ sequence = None
    /\ address_ret = <<>>
    /\ trace = <<>>

\* The call has returned (or unwound): the connector is at rest again.
Return ==
    /\ pc = "done"
    /\ pc' = "idle"
    /\ op' = "none"
    /\ ret' = Pending
    /\ signer' = FALSE
    /\ reorg_period' = NoPolicy
    /\ value' = <<>>
    /\ native' = <<>>
    /\ decoded' = None
    /\ number' = None
    /\ energy_limit' = None
    /\ fee_limit' = None
    /\ outcome' = None
    /\ raw' = <<>>
    /\ events' = <<>>
    /\ attempts' = 0
    /\ lastErr' = ""
    /\ sequence' = None
    /\ address_ret' = <<>>
    /\ trace' = <<>>

(***************************************************************************)
(* AddressCodec as calls: decoding an identifier, and encoding a native     *)
(* address and decoding the result.                                        *)
(***************************************************************************)
\* TronAddress::try_from(v) on an identifier v.
try_from(v) ==
    /\ pc = "idle"
    /\ op' = "try_from"
    /\ value' = v
    /\ LET r == TryFromH256(v)
       IN  /\ decoded' = IF r.ok THEN Some(r.addr) ELSE None
           /\ ret' = IF r.ok THEN Ok ELSE Err("InvalidAddressFormat")
    /\ pc' = "done"
    /\ UNCHANGED <<signer, reorg_period, native, number, energy_limit,
                   fee_limit, outcome, raw, events, attempts, lastErr,
                   sequence, address_ret, trace>>

\* H256::from(a) on a TronAddress a.
into_h256(a) ==
    /\ pc = "idle"
    /\ op' = "round_trip"
    /\ native' = a
    /\ value' = IntoH256(a)
    /\ pc' = "encoded"
    /\ UNCHANGED <<ret, signer, reorg_period, decoded, number, energy_limit,
                   fee_limit, outcome, raw, events, attempts, lastErr,
                   sequence, address_ret, trace>>

\* TronAddress::try_from on the identifier just encoded.
try_from_encoded ==
    /\ pc = "encoded"
    /\ LET r == TryFromH256(value)
       IN  /\ decoded' = IF r.ok THEN Some(r.addr) ELSE None
           /\ ret' = IF r.ok THEN Ok ELSE Err("InvalidAddressFormat")
    /\ pc' = "done"
    /\ UNCHANGED <<op, signer, reorg_period, value, native, number,
                   energy_limit, fee_limit, outcome, raw, events, attempts,
                   lastErr,
                   sequence, address_ret, trace>>

(***************************************************************************)
(* FinalityResolver (contracts/utils.rs, get_finalized_block_number).      *)
(***************************************************************************)
\* The node endpoint the match on the policy queries.
FinalityQuery(policy) ==
    IF policy.kind \in {"None", "Blocks"}
    THEN "get_latest_block"
    ELSE "get_finalized_block_number"

\* `number`: the node's height h (u64) after the lag subtraction.
FinalityNumber(policy, h) ==
    IF policy.kind = "Blocks"
    THEN saturating_sub(h, Extend(policy.lag, U64Len))
    ELSE h

\* number.try_into().unwrap(): the u32 of a u64, a panic when it does not fit.
TryIntoU32(n) ==
    IF FitsIn(n, U32Len)
    THEN [ok |-> TRUE, v |-> Low(n, U32Len)]
    ELSE [ok |-> FALSE, v |-> <<>>]

\* latest_sequence_count_and_tip of the three indexed kinds: dispatched
\* messages (mailbox nonce), delivery ids (no counter) and merkle insertions
\* (hook count).
DispatchSequence == "latest_sequence_count_and_tip_dispatch"
DeliverySequence == "latest_sequence_count_and_tip_delivery"
InsertionSequence == "latest_sequence_count_and_tip_insertion"
SequenceOps == {DispatchSequence, DeliverySequence, InsertionSequence}

\* The calls that return as soon as the height is resolved: the resolver
\* called by itself, and the delivery indexer's `Ok((None, tip))`.
EndsAtTip(o) == o \in {"get_finalized_block_number", DeliverySequence}

\* Indexer::get_finalized_block_number under the indexer's reorg policy.
start_get_finalized_block_number(policy) ==
    /\ pc = "idle"
    /\ op' = "get_finalized_block_number"
    /\ reorg_period' = policy
    /\ pc' = "resolve"
    /\ UNCHANGED <<ret, signer, value, native, decoded, number, energy_limit,
                   fee_limit, outcome, raw, events, attempts, lastErr,
                   sequence, address_ret, trace>>

\* get_finalized_block_number: one node query, the lag, the narrowing.  The
\* node answers a height h, or the transport fails.
get_finalized_block_number ==
    /\ pc = "resolve"
    /\ \/ /\ trace' = Append(trace,
                        Entry(FinalityQuery(reorg_period), FALSE, None, <<>>))
          /\ ret' = Err("Transport")
          /\ pc' = "done"
          /\ UNCHANGED number
       \/ \E h \in Heights :
            LET r == TryIntoU32(FinalityNumber(reorg_period, h))
            IN  /\ trace' = Append(trace,
                              Entry(FinalityQuery(reorg_period), TRUE, None, h))
                /\ IF ~r.ok
                   THEN /\ ret' = Panic("unwrap")
                        /\ pc' = "done"
                        /\ UNCHANGED number
                   ELSE /\ number' = Some(r.v)
                        /\ IF EndsAtTip(op)
                           THEN ret' = Ok /\ pc' = "done"
                           ELSE ret' = ret /\ pc' = "call"
    /\ UNCHANGED <<op, signer, reorg_period, value, native, decoded,
                   energy_limit, fee_limit, outcome, raw, events, attempts,
                   lastErr,
                   sequence, address_ret>>

\* latest_sequence_count_and_tip under the indexer's reorg policy: the tip
\* is resolved first.
start_latest_sequence_count_and_tip(kind, policy) ==
    /\ pc = "idle"
    /\ op' = kind
    /\ reorg_period' = policy
    /\ pc' = "resolve"
    /\ UNCHANGED <<ret, signer, value, native, decoded, number, energy_limit,
                   fee_limit, outcome, raw, events, attempts, lastErr,
                   sequence, address_ret, trace>>

\* The counters a contract may answer (u32).
Counts == {ToDigits(n, U32Len) : n \in 0 .. MaxNonce}

\* A mutant: the counter is read at the chain head.
SequenceBlockLatest(tip) == None

\* `.block(u64::from(tip))`: the block the counter is read at.
SequenceBlock(tip) == {Extend(n, U64Len) : n \in tip}

\* self.contract.nonce() / count() at the tip: the counter, or a failure of
\* the transport.
sequence_call ==
    /\ pc = "call"
    /\ op \in {DispatchSequence, InsertionSequence}
    /\ \/ /\ trace' = Append(trace,
                        Entry("eth_call", FALSE, SequenceBlock(number), <<>>))
          /\ ret' = Err("Transport")
          /\ UNCHANGED sequence
       \/ \E count \in Counts :
            /\ trace' = Append(trace,
                          Entry("eth_call", TRUE, SequenceBlock(number), count))
            /\ sequence' = Some(count)
            /\ ret' = Ok
    /\ pc' = "done"
    /\ UNCHANGED <<op, signer, reorg_period, value, native, decoded, number,
                   energy_limit, fee_limit, outcome, raw, events, attempts,
                   lastErr, address_ret>>

(***************************************************************************)
(* ContractFacade, read methods (contracts/mailbox.rs, merkle_tree_hook.rs).*)
(***************************************************************************)
MailboxReads == {"count", "delivered", "default_ism", "recipient_ism"}
HookReads == {"latest_checkpoint", "tree", "hook_count"}
ReadMethods == MailboxReads \cup HookReads

\* The read methods whose signature has a `reorg_period: &ReorgPeriod`.
TakesReorgPeriod(m) == m \in {"count", "latest_checkpoint", "tree", "hook_count"}

\* A mutant of call_with_reorg_period: the block is resolved and not applied.
CallNotPinned(policy, resolved) == None

\* call_with_reorg_period: call.block(block as u64) unless the policy is None.
\* The result is the block the call is pinned to (None: the chain head).
call_with_reorg_period(policy, resolved) ==
    IF ~is_none(policy)
    THEN {Extend(n, U64Len) : n \in resolved}
    ELSE None

\* A mutant of the recipient's conversion: an H256 that does not decode is
\* replaced by the zero address.
recipient_try_into_or_default(v) ==
    IF TryFromH256(v).ok THEN TryFromH256(v)
    ELSE [ok |-> TRUE, addr |-> FromH160(Zeros(H160Len))]

\* recipient_ism: `let recipient: TronAddress = recipient.try_into()?`.
recipient_try_into(v) == TryFromH256(v)

\* recipient_ism: `recipient.into()`, the H160 the contract method is given.
recipient_into(recipient) == {IntoH160(a) : a \in recipient}

\* A read method m is called while `policy` is the reorg policy in force; m
\* receives it when its signature takes one.  recipient_ism first decodes
\* its recipient v.
start_read(m, policy, v) ==
    /\ pc = "idle"
    /\ op' = m
    /\ reorg_period' = policy
    /\ IF m = "recipient_ism"
       THEN LET r == recipient_try_into(v)
            IN  /\ value' = v
                /\ decoded' = IF r.ok THEN Some(r.addr) ELSE None
                /\ ret' = IF r.ok THEN ret ELSE Err("InvalidAddressFormat")
                /\ pc' = IF r.ok THEN "call" ELSE "done"
       ELSE /\ UNCHANGED <<value, decoded, ret>>
            /\ pc' = IF TakesReorgPeriod(m) /\ ~is_none(policy)
                     THEN "resolve"
                     ELSE "call"
    /\ UNCHANGED <<signer, native, number, energy_limit, fee_limit, outcome,
                   raw, events, attempts, lastErr,
                   sequence, address_ret, trace>>

(***************************************************************************)
(* ContractFacade, construction and HyperlaneContract::address.            *)
(***************************************************************************)
Facades == {"TronMailbox", "TronMerkleTreeHook", "TronValidatorAnnounce"}

\* XContract::new(address, ..): the H160 the contract binding keeps, read
\* back with self.contract.address().
contract_address(a) == IntoH160(a)

\* H256::from(H160) of hyperlane-core: the 20 bytes right-aligned after 12
\* zero bytes.
H160IntoH256(h) == Zeros(H256Len - H160Len) \o h

\* HyperlaneContract::address of a facade whose contract binding keeps h:
\* the mailbox and the validator announce go through TronAddress, the
\* merkle tree hook converts the H160 itself.
FacadeAddress(facade, h) ==
    IF facade = "TronMerkleTreeHook"
    THEN H160IntoH256(h)
    ELSE IntoH256(FromH160(h))

\* Checkpoint { merkle_tree_hook_address: self.address(), .. } of the hook
\* built from the address `built` (Option).
merkle_tree_hook_address(built) ==
    IF built = None THEN <<>>
    ELSE FacadeAddress("TronMerkleTreeHook",
                       contract_address(CHOOSE a \in built : TRUE))

\* TronMailbox::new, TronMerkleTreeHook::new, TronValidatorAnnounce::new on
\* a locator whose address is u.
new_facade(facade, u) ==
    /\ pc = "idle"
    /\ op' = facade
    /\ value' = u
    /\ LET r == TryFromH256(u)
       IN  /\ decoded' = IF r.ok THEN Some(r.addr) ELSE None
           /\ ret' = IF r.ok THEN ret ELSE Err("InvalidAddressFormat")
           /\ pc' = IF r.ok THEN "constructed" ELSE "done"
    /\ UNCHANGED <<signer, reorg_period, native, number, energy_limit,
                   fee_limit, outcome, raw, events, attempts, lastErr,
                   sequence, address_ret, trace>>

\* HyperlaneContract::address on the facade just built.
facade_address ==
    /\ pc = "constructed"
    /\ address_ret' = FacadeAddress(op, contract_address(CHOOSE a \in decoded : TRUE))
    /\ ret' = Ok
    /\ pc' = "done"
    /\ UNCHANGED <<op, signer, reorg_period, value, native, decoded, number,
                   energy_limit, fee_limit, outcome, raw, events, attempts,
                   lastErr, sequence, trace>>

\* MerkleTreeHook::latest_checkpoint on the hook just built, under `policy`.
latest_checkpoint(policy) ==
    /\ pc = "constructed"
    /\ op = "TronMerkleTreeHook"
    /\ op' = "latest_checkpoint"
    /\ reorg_period' = policy
    /\ pc' = IF ~is_none(policy) THEN "resolve" ELSE "call"
    /\ UNCHANGED <<ret, signer, value, native, decoded, number, energy_limit,
                   fee_limit, outcome, raw, events, attempts, lastErr,
                   sequence, address_ret, trace>>

\* call.call().await?: the contract call, pinned or not; it succeeds or the
\* transport fails.  latest_checkpoint puts the hook's address() in the
\* Checkpoint it returns.
eth_call ==
    /\ pc = "call"
    /\ op \in ReadMethods
    /\ \E ok \in BOOLEAN :
        /\ trace' = Append(trace,
              [Entry("eth_call", ok,
                     IF TakesReorgPeriod(op)
                     THEN call_with_reorg_period(reorg_period, number)
                     ELSE None,
                     <<>>)
               EXCEPT !.arg = IF op = "recipient_ism"
                              THEN recipient_into(decoded)
                              ELSE None])
        /\ ret' = IF ok THEN Ok ELSE Err("Transport")
        /\ address_ret' = IF ok /\ op = "latest_checkpoint"
                          THEN merkle_tree_hook_address(decoded)
                          ELSE address_ret
    /\ pc' = "done"
    /\ UNCHANGED <<op, signer, reorg_period, value, native, decoded, number,
                   energy_limit, fee_limit, outcome, raw, events, attempts,
                   lastErr, sequence>>

(***************************************************************************)
(* TransactionSubmitter (contracts/utils.rs, send_transaction) and the     *)
(* write methods that drive it.                                            *)
(***************************************************************************)
WriteMethods == {"process", "announce"}
Steps == <<"get_energy_fee", "trigger_contract", "sign_transaction",
           "broadcast_transaction", "await_confirmation">>

\* The ceilings a caller passes (Option<U256>) and the prices a node answers.
GasLimits ==
    {ToDigits(1000, U256Len),
     [i \in 1 .. U256Len |-> IF i = U32Len + 1 THEN 1 ELSE 0],
     [i \in 1 .. U256Len |-> IF i = U64Len + 1 THEN 1 ELSE 0]}
EnergyPrices ==
    {ToDigits(420, U64Len), [i \in 1 .. U64Len |-> IF i = U32Len + 1 THEN 2 ELSE 0]}
TxIds == {[i \in 1 .. H256Len |-> k] : k \in {1, 2}}

\* A mutant of the signer check: the write goes on without a signer.
SignerNotChecked(s) == FALSE

\* self.signer.as_ref().ok_or(SignerUnavailable)?
SignerUnavailable(s) == ~s

\* A mutant: the result of sign_transaction is dropped, not returned with `?`.
NextPcSignIgnored(step, ok) ==
    IF ~ok /\ step # "sign_transaction" THEN "done"
    ELSE CASE step = "get_energy_fee" -> "trigger_contract"
           [] step = "trigger_contract" -> "sign_transaction"
           [] step = "sign_transaction" -> "broadcast_transaction"
           [] step = "broadcast_transaction" -> "await_confirmation"
           [] OTHER -> "done"

\* Where send_transaction stands after a step: `?` returns on a failure, and
\* the confirmation poll is the last step whatever it answers.
NextPc(step, ok) ==
    IF ~ok THEN "done"
    ELSE CASE step = "get_energy_fee" -> "trigger_contract"
           [] step = "trigger_contract" -> "sign_transaction"
           [] step = "sign_transaction" -> "broadcast_transaction"
           [] step = "broadcast_transaction" -> "await_confirmation"
           [] OTHER -> "done"

\* A mutant: a failed confirmation poll is returned as an error.
StepRetEscalating(step, ok) ==
    IF step = "await_confirmation" /\ ok THEN Ok
    ELSE IF ok THEN Pending
    ELSE IF step = "sign_transaction" THEN Err("SignatureFailure")
    ELSE Err("Transport")

\* The result after a step: the error of a failed step (`?`), except that the
\* poll's answer is only read with is_ok() and the call returns Ok.
StepRet(step, ok) ==
    IF step = "await_confirmation" THEN Ok
    ELSE IF ok THEN Pending
    ELSE IF step = "sign_transaction" THEN Err("SignatureFailure")
    ELSE Err("Transport")

\* H256::from(txid.0).into(): the 32 bytes in the low half of an H512.
TransactionId(txid) == Zeros(H256Len) \o txid

\* The TxOutcome built at utils.rs:113-119.
TxOutcomeOf(txid, confirmed) ==
    [transaction_id |-> TransactionId(txid), executed |-> confirmed,
     gas_used |-> Zeros(U256Len), gas_price |-> Zeros(U256Len)]

\* Mailbox::process and ValidatorAnnounce::announce on a facade built with a
\* signer (s) or without: the signer check, then tx_gas_limit.map(as_u64)
\* (process; announce passes None), then send_transaction begins.
start_write(m, s, limit) ==
    /\ pc = "idle"
    /\ m = "announce" => limit = None
    /\ op' = m
    /\ signer' = s
    /\ IF SignerUnavailable(s)
       THEN /\ ret' = Err("SignerUnavailable")
            /\ pc' = "done"
            /\ UNCHANGED energy_limit
       ELSE IF \E l \in limit : ~FitsIn(l, U64Len)
       THEN /\ ret' = Panic("as_u64")
            /\ pc' = "done"
            /\ UNCHANGED energy_limit
       ELSE /\ energy_limit' = {Low(l, U64Len) : l \in limit}
            /\ ret' = ret
            /\ pc' = IF limit # None THEN "get_energy_fee"
                     ELSE "trigger_contract"
    /\ UNCHANGED <<reorg_period, value, native, decoded, number, fee_limit,
                   outcome, raw, events, attempts, lastErr,
                   sequence, address_ret, trace>>

\* energy_limit * energy_price on u64: the product when it fits; when it does
\* not, the build panics (overflow checks on) or wraps (overflow checks off).
FeeProducts(limit, price) ==
    LET p == Mul(limit, price)
    IN  IF FitsIn(p, U64Len)
        THEN {[ok |-> TRUE, v |-> Low(p, U64Len)]}
        ELSE {[ok |-> TRUE, v |-> Low(p, U64Len)], [ok |-> FALSE, v |-> <<>>]}

\* provider.rpc_client.get_energy_fee().await? and the fee budget.
get_energy_fee ==
    /\ pc = "get_energy_fee"
    /\ \/ /\ trace' = Append(trace, Entry("get_energy_fee", FALSE, None, <<>>))
          /\ ret' = StepRet("get_energy_fee", FALSE)
          /\ pc' = NextPc("get_energy_fee", FALSE)
          /\ UNCHANGED fee_limit
       \/ \E price \in EnergyPrices, l \in energy_limit :
            \E r \in FeeProducts(l, price) :
                /\ trace' = Append(trace,
                              Entry("get_energy_fee", TRUE, None, price))
                /\ IF r.ok
                   THEN /\ fee_limit' = Some(r.v)
                        /\ ret' = StepRet("get_energy_fee", TRUE)
                        /\ pc' = NextPc("get_energy_fee", TRUE)
                   ELSE /\ ret' = Panic("overflow")
                        /\ pc' = "done"
                        /\ UNCHANGED fee_limit
    /\ UNCHANGED <<op, signer, reorg_period, value, native, decoded, number,
                   energy_limit, outcome, raw, events, attempts, lastErr,
                   sequence, address_ret>>

\* trigger_contract(&method_call, 0, fee_limit).await?: the build, given the
\* fee budget; it answers a transaction or fails.
trigger_contract ==
    /\ pc = "trigger_contract"
    /\ \E ok \in BOOLEAN :
        /\ trace' = Append(trace,
              [Entry("trigger_contract", ok, None, <<>>) EXCEPT !.fee = fee_limit])
        /\ ret' = StepRet("trigger_contract", ok)
        /\ pc' = NextPc("trigger_contract", ok)
    /\ UNCHANGED <<op, signer, reorg_period, value, native, decoded, number,
                   energy_limit, fee_limit, outcome, raw, events, attempts,
                   lastErr,
                   sequence, address_ret>>

\* signer.0.sign_transaction(&mut tx)?: a local step, no network call.
sign_transaction ==
    /\ pc = "sign_transaction"
    /\ \E ok \in BOOLEAN :
        /\ trace' = Append(trace, Entry("sign_transaction", ok, None, <<>>))
        /\ ret' = StepRet("sign_transaction", ok)
        /\ pc' = NextPc("sign_transaction", ok)
    /\ UNCHANGED <<op, signer, reorg_period, value, native, decoded, number,
                   energy_limit, fee_limit, outcome, raw, events, attempts,
                   lastErr,
                   sequence, address_ret>>

\* broadcast_transaction(&tx).await?: the node answers the transaction id, or
\* the broadcast fails.
broadcast_transaction ==
    /\ pc = "broadcast_transaction"
    /\ \/ /\ trace' = Append(trace,
                        Entry("broadcast_transaction", FALSE, None, <<>>))
          /\ ret' = StepRet("broadcast_transaction", FALSE)
          /\ pc' = NextPc("broadcast_transaction", FALSE)
       \/ \E txid \in TxIds :
          /\ trace' = Append(trace,
                        Entry("broadcast_transaction", TRUE, None, txid))
          /\ ret' = StepRet("broadcast_transaction", TRUE)
          /\ pc' = NextPc("broadcast_transaction", TRUE)
    /\ UNCHANGED <<op, signer, reorg_period, value, native, decoded, number,
                   energy_limit, fee_limit, outcome, raw, events, attempts,
                   lastErr,
                   sequence, address_ret>>

\* await_confirmation(txid).await.is_ok(), then Ok(TxOutcome {..}).
await_confirmation ==
    /\ pc = "await_confirmation"
    /\ \E confirmed \in BOOLEAN :
        /\ trace' = Append(trace,
                      Entry("await_confirmation", confirmed, None, <<>>))
        /\ ret' = StepRet("await_confirmation", confirmed)
        /\ pc' = NextPc("await_confirmation", confirmed)
        /\ outcome' = IF ret'.status = "Ok"
                      THEN Some(TxOutcomeOf(trace[Len(trace)].resp, confirmed))
                      ELSE None
    /\ UNCHANGED <<op, signer, reorg_period, value, native, decoded, number,
                   energy_limit, fee_limit, raw, events, attempts, lastErr,
                   sequence, address_ret>>

(***************************************************************************)
(* EventIndexer, range queries (mailbox.rs 57-79, 126-140;                  *)
(* merkle_tree_hook.rs 54-76).                                             *)
(***************************************************************************)
\* A raw dispatch log as the node returns it: the nonce of its message and
\* its log position.
RawLogs == [nonce : 0 .. MaxNonce, meta : 1 .. 2]

RECURSIVE SeqsUpTo(_, _)
\* The sequences of at most n elements of S.
SeqsUpTo(S, n) ==
    IF n = 0 THEN {<<>>}
    ELSE LET shorter == SeqsUpTo(S, n - 1)
         IN  shorter \cup {Append(q, x) : q \in shorter, x \in S}

\* (HyperlaneMessage::from(event.message.to_vec()).into(), meta.into()): the
\* indexed record of a raw log; its sequence is the message's nonce.
IndexedMessage(log) ==
    [nonce |-> log.nonce, sequence |-> Some(log.nonce), meta |-> log.meta]

\* A mutant of the comparison: reversed (b.nonce.cmp(a.nonce)).
NonceAfter(a, b) == a.nonce > b.nonce

\* |a, b| a.0.inner().nonce.cmp(&b.0.inner().nonce) is Less
NonceBefore(a, b) == a.nonce < b.nonce

RECURSIVE InsertByNonce(_, _)
\* x placed in the sorted q before the first element it precedes.
InsertByNonce(x, q) ==
    IF q = <<>> THEN <<x>>
    ELSE IF NonceBefore(x, Head(q)) THEN <<x>> \o q
    ELSE <<Head(q)>> \o InsertByNonce(x, Tail(q))

RECURSIVE SortByNonce(_)
\* events.sort_by(..): Vec::sort_by, a stable sort.
SortByNonce(q) ==
    IF q = <<>> THEN <<>>
    ELSE InsertByNonce(q[Len(q)], SortByNonce(SubSeq(q, 1, Len(q) - 1)))

\* fetch_logs_in_range of an event kind: one log query; a failure is
\* returned at once (`?`), an answer is mapped and, for dispatches, sorted.
fetch_logs_in_range(kind) ==
    /\ pc = "idle"
    /\ op' = kind
    /\ \/ /\ trace' = Append(trace, Entry("get_logs", FALSE, None, <<>>))
          /\ ret' = Err("Transport")
          /\ UNCHANGED <<raw, events>>
       \/ \E logs \in SeqsUpTo(RawLogs, MaxLogs) :
          /\ trace' = Append(trace, Entry("get_logs", TRUE, None, <<>>))
          /\ raw' = logs
          /\ LET mapped == [i \in 1 .. Len(logs) |-> IndexedMessage(logs[i])]
             IN  events' = IF kind = "fetch_dispatch_logs_in_range"
                           THEN SortByNonce(mapped)
                           ELSE mapped
          /\ ret' = Ok
    /\ pc' = "done"
    /\ UNCHANGED <<signer, reorg_period, value, native, decoded, number,
                   energy_limit, fee_limit, outcome, attempts, lastErr,
                   sequence, address_ret>>

RangeFetches ==
    {"fetch_dispatch_logs_in_range", "fetch_delivery_logs_in_range",
     "fetch_insertion_logs_in_range"}

(***************************************************************************)
(* EventIndexer, by transaction hash (utils.rs fetch_raw_logs_and_meta,    *)
(* mailbox.rs 81-103, merkle_tree_hook.rs 83-108).                         *)
(***************************************************************************)
\* A log of a receipt: the contract that emitted it, whether it decodes as
\* the event asked for, and its index in the receipt.
ReceiptLog(address, decodes, index) ==
    [address |-> address, decodes |-> decodes, index |-> index]
Receipts ==
    {[i \in 1 .. Len(q) |-> ReceiptLog(q[i][1], q[i][2], i)] :
        q \in SeqsUpTo({"target", "other"} \X BOOLEAN, MaxLogs)}

\* What get_transaction_receipt answers: a transport failure, no receipt
\* (None), or a receipt.
ReceiptAnswers ==
    {[kind |-> "transport", logs |-> <<>>], [kind |-> "none", logs |-> <<>>]}
    \cup {[kind |-> "receipt", logs |-> r] : r \in Receipts}

\* A mutant: a log that does not decode fails the attempt.
fetch_raw_logs_and_meta_strict(answer) ==
    IF answer.kind = "transport" THEN [ok |-> FALSE, err |-> "Transport", logs |-> <<>>]
    ELSE IF answer.kind = "none"
    THEN [ok |-> FALSE, err |-> "InvalidTransactionId", logs |-> <<>>]
    ELSE IF \E i \in 1 .. Len(answer.logs) :
                answer.logs[i].address = "target" /\ ~answer.logs[i].decodes
    THEN [ok |-> FALSE, err |-> "Decode", logs |-> <<>>]
    ELSE [ok |-> TRUE, err |-> "",
          logs |-> SelectSeq(answer.logs, LAMBDA log : log.address = "target")]

\* A mutant: the test of the emitting address is missing.
fetch_raw_logs_and_meta_any_address(answer) ==
    IF answer.kind = "transport" THEN [ok |-> FALSE, err |-> "Transport", logs |-> <<>>]
    ELSE IF answer.kind = "none"
    THEN [ok |-> FALSE, err |-> "InvalidTransactionId", logs |-> <<>>]
    ELSE [ok |-> TRUE, err |-> "",
          logs |-> SelectSeq(answer.logs, LAMBDA log : log.decodes)]

\* fetch_raw_logs_and_meta: the receipt (`?` on a failure, ok_or on None),
\* then the logs of the contract that decode (decode_log(..).ok()).
fetch_raw_logs_and_meta(answer) ==
    IF answer.kind = "transport" THEN [ok |-> FALSE, err |-> "Transport", logs |-> <<>>]
    ELSE IF answer.kind = "none"
    THEN [ok |-> FALSE, err |-> "InvalidTransactionId", logs |-> <<>>]
    ELSE [ok |-> TRUE, err |-> "",
          logs |-> SelectSeq(answer.logs,
                     LAMBDA log : log.address = "target" /\ log.decodes)]

\* call_and_retry_indefinitely: its value is the closure's Ok value, so a
\* failed attempt of any kind is followed by another attempt.
call_and_retry_indefinitely(result) == IF result.ok THEN "done" ELSE "attempt"

TxHashFetches == {"fetch_dispatch_logs_by_tx_hash", "fetch_insertion_logs_by_tx_hash"}

\* fetch_logs_by_tx_hash of an indexer.
start_fetch_logs_by_tx_hash(kind) ==
    /\ pc = "idle"
    /\ op' = kind
    /\ pc' = "attempt"
    /\ UNCHANGED <<ret, signer, reorg_period, value, native, decoded, number,
                   energy_limit, fee_limit, outcome, raw, events, attempts,
                   lastErr,
                   sequence, address_ret, trace>>

\* One attempt of the retry loop, and the mapping of its value to records.
fetch_attempt ==
    /\ pc = "attempt"
    /\ \E answer \in ReceiptAnswers :
        LET r == fetch_raw_logs_and_meta(answer)
        IN  /\ r.ok \/ attempts < MaxAttempts
            /\ trace' = Append(trace,
                  Entry("get_transaction_receipt", answer.kind # "transport",
                        None, <<>>))
            /\ pc' = call_and_retry_indefinitely(r)
            /\ raw' = answer.logs
            /\ IF pc' = "done"
               THEN /\ events' = [i \in 1 .. Len(r.logs) |->
                                    [payload |-> r.logs[i].index,
                                     meta |-> r.logs[i].index]]
                    /\ ret' = Ok
                    /\ UNCHANGED <<attempts, lastErr>>
               ELSE /\ attempts' = attempts + 1
                    /\ lastErr' = r.err
                    /\ UNCHANGED <<events, ret>>
    /\ UNCHANGED <<op, signer, reorg_period, value, native, decoded, number,
                   energy_limit, fee_limit, outcome, sequence, address_ret>>

(***************************************************************************)
(* The connector.                                                          *)
(***************************************************************************)
\* The recipients recipient_ism is called with, and the H256 of a call that
\* converts none.
Recipients ==
    {p \o n : p \in {Zeros(PadLen), [Zeros(PadLen) EXCEPT ![1] = 1]},
              n \in NativeBytes}
NoValue == <<>>
\* The addresses of the locators the facades are built from.
Locators == Recipients

Next ==
    \/ pc = "idle" /\ \E v \in H256Inputs : try_from(v)
    \/ pc = "idle" /\ \E a \in TronAddresses : into_h256(a)
    \/ try_from_encoded
    \/ pc = "idle" /\ \E policy \in ReorgPeriods :
                        start_get_finalized_block_number(policy)
    \/ get_finalized_block_number
    \/ pc = "idle" /\ \E kind \in SequenceOps, policy \in ReorgPeriods :
                        start_latest_sequence_count_and_tip(kind, policy)
    \/ sequence_call
    \/ pc = "idle" /\ \E m \in ReadMethods \ {"recipient_ism", "latest_checkpoint"},
                         policy \in ReorgPeriods :
                        start_read(m, policy, NoValue)
    \/ pc = "idle" /\ \E facade \in Facades, u \in Locators :
                        new_facade(facade, u)
    \/ facade_address
    \/ \E policy \in ReorgPeriods : latest_checkpoint(policy)
    \/ pc = "idle" /\ \E policy \in ReorgPeriods, v \in Recipients :
                        start_read("recipient_ism", policy, v)
    \/ eth_call
    \/ pc = "idle" /\ \E m \in WriteMethods, s \in BOOLEAN,
                         limit \in {None} \cup {Some(l) : l \in GasLimits} :
                        start_write(m, s, limit)
    \/ get_energy_fee
    \/ trigger_contract
    \/ sign_transaction
    \/ broadcast_transaction
    \/ await_confirmation
    \/ pc = "idle" /\ \E kind \in RangeFetches : fetch_logs_in_range(kind)
    \/ pc = "idle" /\ \E kind \in TxHashFetches :
                        start_fetch_logs_by_tx_hash(kind)
    \/ fetch_attempt
    \/ Return

Spec == Init /\ [][Next]_vars

(***************************************************************************)
(* The claims.                                                             *)
(***************************************************************************)
\* C1: decoding a UniversalId with a nonzero byte among its first 11 bytes
\* fails with InvalidAddressFormat, whatever its low 21 bytes are; no native
\* address is returned.
C1_NonzeroPaddingRejected ==
    (op = "try_from" /\ pc = "done" /\ \E i \in 1 .. PadLen : value[i] # 0)
        => (ret = Err("InvalidAddressFormat") /\ decoded = None)

\* C2: for every valid native address a, encode(a) is 11 zero bytes followed
\* by the 21 bytes of a, and decoding it succeeds and returns exactly a.
C2_EncodeDecodeRoundTrip ==
    (op = "round_trip" /\ pc \in {"encoded", "done"}) =>
        /\ Len(value) = H256Len
        /\ \A i \in 1 .. PadLen : value[i] = 0
        /\ \A i \in 1 .. NativeLen : value[PadLen + i] = native[i]
        /\ pc = "done" => (ret = Ok /\ decoded = Some(native))

C2_Witness ==
    /\ op = "round_trip" /\ pc = "done"
    /\ native[1] = TronPrefix /\ native[NativeLen] = 171
    /\ decoded # None

\* C3: finality resolution returns the HeightOverflow error (it does not
\* panic) when the height after the lag subtraction, or the finalized
\* endpoint's height, exceeds 2^32 - 1, and returns the height unchanged when
\* it fits in 32 bits.
C3_HeightOverflowIsAnError ==
    (op = "get_finalized_block_number" /\ pc = "done" /\ trace[1].ok) =>
        LET n == FinalityNumber(reorg_period, trace[1].resp)
        IN  IF FitsIn(n, U32Len)
            THEN ret = Ok /\ number = Some(Low(n, U32Len))
            ELSE ret = Err("HeightOverflow")

\* C4: for every head height h and lag n, resolve(FixedLag(n)) returns
\* max(0, h - n): 0 when n >= h, and otherwise the r with r + n = h.
C4_FixedLagSaturates ==
    (/\ op = "get_finalized_block_number" /\ pc = "done"
     /\ reorg_period.kind = "Blocks" /\ trace[1].ok) =>
        LET h == trace[1].resp
            n == Extend(reorg_period.lag, U64Len)
        IN  /\ ret = Ok
            /\ number # None
            /\ \A r \in number :
                IF Less(h, n) \/ h = n
                THEN IsZero(r)
                ELSE Add(Extend(r, U64Len), n) = h

\* The logs of a receipt the fetch has to return: those of the target
\* contract that decode.
KeptLogs(logs) ==
    {i \in 1 .. Len(logs) : logs[i].address = "target" /\ logs[i].decodes}

\* C5 (as claimed): the by-transaction-hash fetch retries only transport
\* failures; a receipt that is not found, or a log of the target contract
\* that does not decode, ends the fetch with an error returned to the caller.
C5_TerminalOnNotFoundOrDecode ==
    op \in TxHashFetches =>
        /\ lastErr = "InvalidTransactionId" =>
                (pc = "done" /\ ret.status = "Err")
        /\ (/\ pc = "done"
            /\ \E i \in 1 .. Len(raw) :
                    raw[i].address = "target" /\ ~raw[i].decodes)
              => ret.status = "Err"
        /\ (lastErr = "Transport" /\ pc # "done") => pc = "attempt"

\* C5 (amended): the by-transaction-hash fetch never returns an error.  An
\* attempt fails only on a transport failure or a receipt that is not found,
\* and every failed attempt is followed by another attempt; a log of the
\* target contract that does not decode is skipped, and the fetch returns Ok
\* with the records of the target's logs that decode.
C5_RetriesEveryFailure ==
    op \in TxHashFetches =>
        /\ ret.status \notin {"Err", "Panic"}
        /\ lastErr \in {"", "Transport", "InvalidTransactionId"}
        /\ pc \in {"attempt", "done"}
        /\ pc = "attempt" => (ret = Pending /\ Len(trace) = attempts)
        /\ pc = "done" =>
              /\ ret = Ok
              /\ Len(trace) = attempts + 1
              /\ Len(events) = Cardinality(KeptLogs(raw))
              /\ {events[j].payload : j \in 1 .. Len(events)} = KeptLogs(raw)

C5_Witness ==
    /\ op \in TxHashFetches /\ pc = "done"
    /\ attempts = 2 /\ lastErr = "InvalidTransactionId"
    /\ \E i \in 1 .. Len(raw) : raw[i].address = "target" /\ ~raw[i].decodes
    /\ \E i \in 1 .. Len(raw) : raw[i].address = "target" /\ raw[i].decodes

\* C6: a write method (process, announce) of a facade built without a signer
\* returns SignerUnavailable and performs no step at all: no fee query, no
\* build, no broadcast, no confirmation poll.
C6_NoSignerNoNetworkCall ==
    (op \in WriteMethods /\ ~signer) =>
        /\ pc = "done"
        /\ ret = Err("SignerUnavailable")
        /\ trace = <<>>
        /\ outcome = None

C6_Witness ==
    op \in WriteMethods /\ ~signer /\ pc = "done" /\ ret.status = "Err"

\* C7: when build, sign and broadcast succeeded, send_transaction returns Ok
\* with the broadcast transaction id and zeroed gas_used and gas_price;
\* executed is true exactly when the confirmation poll succeeded, and a
\* failed poll is not an error.
C7_OutcomeAfterBroadcast ==
    (/\ op \in WriteMethods /\ pc = "done"
     /\ \E i \in 1 .. Len(trace) :
            trace[i].step = "broadcast_transaction" /\ trace[i].ok) =>
        /\ ret = Ok
        /\ \E i \in 1 .. Len(trace) :
            /\ trace[i].step = "broadcast_transaction"
            /\ trace[Len(trace)].step = "await_confirmation"
            /\ \E o \in outcome :
                /\ outcome = {o}
                /\ SubSeq(o.transaction_id, H256Len + 1, 2 * H256Len)
                        = trace[i].resp
                /\ o.executed = trace[Len(trace)].ok
                /\ IsZero(o.gas_used) /\ IsZero(o.gas_price)

C7_Witness ==
    /\ op \in WriteMethods /\ pc = "done" /\ ret = Ok
    /\ trace[Len(trace)].step = "await_confirmation"
    /\ ~trace[Len(trace)].ok
    /\ \E o \in outcome : ~o.executed

\* C8: a submission performs fee estimation (only with a ceiling), build,
\* sign, broadcast and confirmation poll in that order, each at most once;
\* when the fee lookup, the build, the signing or the broadcast fails, that
\* step is the last one and the submission ends with an error.
C8_ForwardOnly ==
    op \in WriteMethods =>
        LET full == IF energy_limit # None THEN Steps ELSE Tail(Steps)
        IN  /\ Len(trace) <= Len(full)
            /\ \A i \in 1 .. Len(trace) : trace[i].step = full[i]
            /\ \A i \in 1 .. Len(trace) :
                (~trace[i].ok /\ trace[i].step # "await_confirmation") =>
                    /\ i = Len(trace)
                    /\ pc = "done"
                    /\ ret.status = "Err"

C8_Witness ==
    /\ op \in WriteMethods /\ pc = "done" /\ ret.status = "Err"
    /\ Len(trace) = 3
    /\ trace[3].step = "sign_transaction" /\ ~trace[3].ok

\* C9 (as claimed): every read method takes the reorg policy and, when the
\* policy is not None, its contract call is pinned to the resolved height.
C9_EveryReadPinned ==
    \A i \in 1 .. Len(trace) :
        (/\ op \in ReadMethods /\ trace[i].step = "eth_call"
         /\ ~is_none(reorg_period)) =>
            /\ number # None
            /\ trace[i].block = {Extend(n, U64Len) : n \in number}

\* C9 (amended): count (of the mailbox and of the merkle tree hook),
\* latest_checkpoint and tree take a reorg policy and, when it is not None,
\* their contract call follows one successful finality resolution and is
\* pinned to the height it resolved; delivered, default_ism and recipient_ism
\* take no reorg policy and their contract call is never pinned, and no call
\* is pinned under the policy None.
C9_PinnedWherePolicyTaken ==
    \A i \in 1 .. Len(trace) :
        (op \in ReadMethods /\ trace[i].step = "eth_call") =>
            IF TakesReorgPeriod(op) /\ ~is_none(reorg_period)
            THEN /\ i = 2
                 /\ trace[1].step = FinalityQuery(reorg_period)
                 /\ trace[1].ok
                 /\ trace[i].block
                        = {FinalityNumber(reorg_period, trace[1].resp)}
            ELSE /\ i = 1
                 /\ trace[i].block = None

C9_Witness ==
    /\ op = "latest_checkpoint" /\ pc = "done" /\ ret = Ok
    /\ reorg_period.kind = "Blocks"
    /\ Len(trace) = 2
    /\ trace[2].block # None
    /\ trace[2].block # {trace[1].resp}

\* C10: a range fetch of dispatch events returns the decoded messages in
\* ascending order of nonce, whatever the order of the raw logs, and the
\* list returned is a permutation of the logs fetched.
C10_SortedPermutation ==
    (op = "fetch_dispatch_logs_in_range" /\ pc = "done" /\ ret = Ok) =>
        /\ \A i, j \in 1 .. Len(events) :
                i < j => events[i].nonce <= events[j].nonce
        /\ Len(events) = Len(raw)
        /\ \A x \in RawLogs :
                Cardinality({i \in 1 .. Len(raw) : raw[i] = x})
                    = Cardinality({j \in 1 .. Len(events) :
                        /\ events[j].nonce = x.nonce
                        /\ events[j].meta = x.meta
                        /\ events[j].sequence = Some(x.nonce)})

C10_Witness ==
    /\ op = "fetch_dispatch_logs_in_range" /\ pc = "done" /\ ret = Ok
    /\ Len(raw) = 3
    /\ raw[1].nonce > raw[2].nonce
    /\ raw[2] = raw[3]
    /\ events[1] # IndexedMessage(raw[1])

\* C11: a by-transaction-hash fetch returns only records built from logs of
\* the receipt that the target contract emitted: a log of another contract
\* is discarded wherever it sits among the target's logs, and the records
\* kept are in the order of the receipt.
C11_OnlyTargetLogsInOrder ==
    (op \in TxHashFetches /\ pc = "done") =>
        /\ \A j \in 1 .. Len(events) :
            /\ events[j].payload \in 1 .. Len(raw)
            /\ raw[events[j].payload].address = "target"
            /\ events[j].meta = raw[events[j].payload].index
        /\ \A i \in 1 .. Len(raw) :
            raw[i].address # "target" =>
                \A j \in 1 .. Len(events) : events[j].meta # raw[i].index
        /\ \A j, k \in 1 .. Len(events) :
            j < k => events[j].meta < events[k].meta

C11_Witness ==
    /\ op \in TxHashFetches /\ pc = "done"
    /\ Len(raw) = 3
    /\ raw[1].address = "target" /\ raw[1].decodes
    /\ raw[2].address = "other" /\ raw[2].decodes
    /\ raw[3].address = "target" /\ raw[3].decodes
    /\ Len(events) = 2

\* C12: recipient_ism decodes its recipient to a native address before any
\* contract call.  A recipient that does not decode ends the call with
\* InvalidAddressFormat and no query; a query, when there is one, is given
\* the address decoded from the recipient, never another one.
C12_DecodeBeforeQuery ==
    op = "recipient_ism" =>
        LET bytes == SubSeq(value, PadLen + 1, H256Len)
        IN  /\ ~AddressNew(bytes) =>
                /\ pc = "done"
                /\ ret = Err("InvalidAddressFormat")
                /\ trace = <<>>
            /\ \A i \in 1 .. Len(trace) :
                /\ trace[i].step = "eth_call"
                /\ AddressNew(bytes)
                /\ trace[i].arg = Some(SubSeq(bytes, 2, NativeLen))

C12_Witness ==
    /\ op = "recipient_ism"
    /\ ~AddressNew(SubSeq(value, PadLen + 1, H256Len))
    /\ pc = "done"
    /\ ret = Err("InvalidAddressFormat")
    /\ trace = <<>>

\* C13: latest_sequence_count_and_tip returns (Some(count), tip) for
\* dispatched messages and merkle insertions, tip being the height resolved
\* under the indexer's reorg policy and count the counter the contract
\* answered for a call pinned to exactly that height; for delivery ids it
\* returns (None, tip) and reads no counter.
C13_CountAtTip ==
    (op \in SequenceOps /\ pc = "done" /\ ret = Ok) =>
        /\ Len(trace) >= 1
        /\ trace[1].step = FinalityQuery(reorg_period)
        /\ trace[1].ok
        /\ LET tip == FinalityNumber(reorg_period, trace[1].resp)
           IN  /\ FitsIn(tip, U32Len)
               /\ number = Some(Low(tip, U32Len))
               /\ IF op = DeliverySequence
                  THEN /\ Len(trace) = 1
                       /\ sequence = None
                  ELSE /\ Len(trace) = 2
                       /\ trace[2].step = "eth_call"
                       /\ trace[2].ok
                       /\ trace[2].block = Some(tip)
                       /\ sequence = Some(trace[2].resp)

C13_Witness ==
    /\ op = DispatchSequence /\ pc = "done" /\ ret = Ok
    /\ reorg_period.kind = "Blocks"
    /\ trace[1].resp = ToDigits(100, U64Len)
    /\ trace[2].block = Some(ToDigits(100 - MaxLag, U64Len))
    /\ sequence = Some(ToDigits(MaxNonce, U32Len))
    /\ number = Some(ToDigits(100 - MaxLag, U32Len))

\* C14: a submission asks the node for the energy fee only when the caller
\* supplied a ceiling, and the build is then given exactly ceiling * fee, the
\* true product; without a ceiling there is no fee query and the build is
\* given no fee budget.
C14_FeeBudgetIsTrueProduct ==
    op \in WriteMethods =>
        \A i \in 1 .. Len(trace) :
            /\ trace[i].step = "get_energy_fee" => energy_limit # None /\ i = 1
            /\ trace[i].step = "trigger_contract" =>
                IF energy_limit = None
                THEN i = 1 /\ trace[i].fee = None
                ELSE /\ i = 2
                     /\ trace[1].step = "get_energy_fee"
                     /\ trace[1].ok
                     /\ \E l \in energy_limit, f \in trace[i].fee :
                            Extend(f, 2 * U64Len) = Mul(l, trace[1].resp)

\* C15: a finality resolution issues exactly one node query, chosen by the
\* policy: None and Blocks read the latest block and never the solidified
\* endpoint, Tag reads the solidified endpoint and never the latest block;
\* under None the head height the node answered is returned unchanged.
C15_OneQueryByPolicy ==
    (op = "get_finalized_block_number" /\ pc = "done") =>
        /\ Len(trace) = 1
        /\ reorg_period.kind \in {"None", "Blocks"} =>
               trace[1].step = "get_latest_block"
        /\ reorg_period.kind = "Tag" =>
               trace[1].step = "get_finalized_block_number"
        /\ (reorg_period.kind = "None" /\ trace[1].ok) =>
               /\ ret = Ok
               /\ {Extend(n, U64Len) : n \in number} = Some(trace[1].resp)

\* C16: a facade built from a locator whose address is a valid universal
\* id u (11 zero bytes, then a native address) answers u to address(), and
\* the merkle_tree_hook_address of a Checkpoint of latest_checkpoint is u.
C16_AddressIsLocator ==
    (/\ address_ret # <<>>
     /\ SubSeq(value, 1, PadLen) = Zeros(PadLen)
     /\ AddressNew(SubSeq(value, PadLen + 1, H256Len))) =>
        address_ret = value

=============================================================================
